---- MODULE Spec2Model ----
(***************************************************************************)
(* Vertical-reference handling of xdem's DEM class (src/xdem/dem.py).      *)
(*                                                                         *)
(* Python values are modelled as strings: None is the string None below,   *)
(* a non-string argument is NotAStr.  A CRS object is a record             *)
(* [kind, epsg, geoidgrids]; Python's None in a CRS position is NoCRS.     *)
(* The model follows one DEM object: the one a caller's variable is bound  *)
(* to, through d = DEM(...), d = DEM(d), d = d.copy(...) and the methods   *)
(* called on it.  The elevation array is one pixel: the height z there.    *)
(***************************************************************************)
EXTENDS Integers, Sequences, FiniteSets, TLC

\* ------------------------------------------------------------------ bounds

\* to_vref is exercised on arrays whose elevation has drifted by less than
\* MaxShift from the loaded value (the elevation is unbounded otherwise).
MaxShift == 3

\* ----------------------------------------------------------- Python values

None == "<None>"
NotAStr == "<int 5>"

\* isinstance(v, str)
IsStr(v) == v \notin {None, NotAStr}

EGM08_GRID == "us_nga_egm08_25.tif"
EGM96_GRID == "us_nga_egm96_15.tif"
OTHER_GRID == "us_noaa_g2018u0.tif"
MISSING_GRID == "nonexistent_grid.tif"

\* Files present in pyproj.datadir.get_data_dir() (the environment).
GridDir == {EGM96_GRID, OTHER_GRID}

\* os.path.exists(os.path.join(pyproj.datadir.get_data_dir(), vref_grid)):
\* joining the empty string gives the directory itself, which exists.
grid_exists(vref_grid) == vref_grid = "" \/ vref_grid \in GridDir

\* "Unknown vertical reference name from: " + vref_grid
unknown_vref(vref_grid) == "Unknown vertical reference name from: " \o vref_grid

\* CRS objects.
NoCRS == [kind |-> "None", epsg |-> None, geoidgrids |-> None]
CRS(epsg, grid) == [kind |-> "CRS", epsg |-> epsg, geoidgrids |-> grid]

\* Horizontal CRSs a raster can be loaded with: one with an EPSG code and a
\* local one for which crs.to_epsg() is None.
HorizontalCRSs == {CRS("4326", None), CRS(None, None)}

\* ------------------------------------------------------------ input sets

Products ==
    {"ArcticDEM/REMA", "TDM1", "NASADEM-HGTS", "AW3D30", "SRTMv4.1", "SRTMGL1",
     "ASTGTM2", "NASADEM-HGT", "COPDEM"}

\* Arguments of parse_vref_from_product: the table, near misses, "" and None.
ProductArgs == Products \cup {"ASTGTM3", "copdem", "SPOT5", "", None}

\* self.product as loaded by the parent constructor.
LoadedProducts == {None, "TDM1", "SRTMGL1", "COPDEM", "SPOT5"}

NameArgs == {None, "WGS84", "EGM08", "EGM96", "bogus"}
GridArgs == {None, NotAStr, "", EGM08_GRID, EGM96_GRID, OTHER_GRID, MISSING_GRID}
CtorNames == {None, "WGS84", "EGM96"}
CtorGrids == {None, EGM96_GRID}
ConvNames == {None, "WGS84", "EGM96", "bogus"}
ConvGrids == {None, "", EGM08_GRID, MISSING_GRID}

\* What the environment can make fail in one call: nothing, the gdalinfo
\* subprocess in the first or second read of ccrs, building the transformer,
\* applying it.
Faults == {"none", "gdal1", "gdal2", "build", "apply"}

\* ---------------------------------------------------------------- resolver

parse_vref_from_product_astgtm3(product) ==
    IF product \in {"ArcticDEM/REMA", "TDM1", "NASADEM-HGTS"} THEN "WGS84"
    ELSE IF product \in {"AW3D30", "SRTMv4.1", "SRTMGL1", "ASTGTM2", "ASTGTM3", "NASADEM-HGT"}
         THEN "EGM96"
    ELSE IF product \in {"COPDEM"} THEN "EGM08"
    ELSE None

parse_vref_from_product(product) ==
    IF product \in {"ArcticDEM/REMA", "TDM1", "NASADEM-HGTS"} THEN "WGS84"
    ELSE IF product \in {"AW3D30", "SRTMv4.1", "SRTMGL1", "ASTGTM2", "NASADEM-HGT"}
         THEN "EGM96"
    ELSE IF product \in {"COPDEM"} THEN "EGM08"
    ELSE None

\* ------------------------------------------------------------------- state

VARIABLES
    dem,        \* the DEM object, or NoDem before the first construction
    last        \* the most recent call: operation, arguments, outcome

vars == <<dem, last>>

NoDem == [live |-> FALSE, crs |-> NoCRS, vref |-> None, vref_grid |-> None,
          ccrs |-> NoCRS, z |-> 0]

\* One step of a call, as seen from outside.
Event(ev, a, b) == [ev |-> ev, a |-> a, b |-> b]

NoCall == [op |-> "none", vref_name |-> None, vref_grid |-> None,
           product |-> None, exc |-> None, ret |-> NoCRS, sret |-> None,
           trace |-> <<>>]

Call(op, vref_name, vref_grid, product, exc, ret, sret, trace) ==
    [op |-> op, vref_name |-> vref_name, vref_grid |-> vref_grid,
     product |-> product, exc |-> exc, ret |-> ret, sret |-> sret, trace |-> trace]

\* ------------------------------------------------------------ DEM methods


\* Outcome of a method: the object afterwards, the exception raised (None
\* when the call returns) and the value returned.
Outcome(d, exc, ret) == [dem |-> d, exc |-> exc, ret |-> ret]

\* __parse_vref_from_fn letting the product name override the user's input.
parse_vref_from_fn_override(d, product) ==
    IF product # None
    THEN LET vref == parse_vref_from_product(product)
         IN  IF vref # None THEN [d EXCEPT !.vref = vref] ELSE d
    ELSE d

\* DEM.__parse_vref_from_fn: self.product is what the parent constructor
\* loaded; it is read here and nowhere else.
parse_vref_from_fn(d, product) ==
    IF product # None
    THEN LET vref == parse_vref_from_product(product)
         IN  IF vref # None /\ d.vref = None
             THEN [d EXCEPT !.vref = vref]
             ELSE d
    ELSE d

\* DEM.__init__ on a source that is not a DEM.  loaded is FALSE when the
\* parent constructor rejects the source; nbands is len(self.indexes), 0
\* standing for self.indexes is None.
DEM_init(loaded, crs, nbands, zz, vref_name, vref_grid, product) ==
    IF ~loaded THEN Outcome(NoDem, "InvalidInput", NoCRS)
    ELSE IF nbands > 1 THEN Outcome(NoDem, "ValueError", NoCRS)
    ELSE LET d == [live |-> TRUE, crs |-> crs, vref |-> vref_name,
                   vref_grid |-> vref_grid, ccrs |-> NoCRS, z |-> zz]
         IN  Outcome(parse_vref_from_fn(d, product), None, NoCRS)

\* DEM.__init__ on a DEM: every attribute of the source, array included.
DEM_init_from_dem(src) == src

\* DEM.copy: the parent's copy owns the array data; vref, vref_grid and
\* _ccrs (dem_attrs) are taken from self.
copy(d, zz) ==
    [live |-> TRUE, crs |-> d.crs, vref |-> d.vref, vref_grid |-> d.vref_grid,
     ccrs |-> d.ccrs, z |-> zz]

\* ccrs as a memoised property: the cached value is returned when there is one.
ccrs_cached(d, pn, gdal_ok) ==
    IF d.ccrs.kind # "None" THEN Outcome(d, None, d.ccrs)
    ELSE IF ~pn /\ ~gdal_ok THEN Outcome(d, "CalledProcessError", NoCRS)
    ELSE LET crs == d.crs
         IN  IF d.vref = "WGS84"
             THEN Outcome([d EXCEPT !.ccrs = crs], None, crs)
             ELSE IF d.vref_grid # None
             THEN IF crs.epsg = None
                  THEN Outcome(d, "TypeError", NoCRS)
                  ELSE LET c == CRS(crs.epsg, d.vref_grid)
                       IN  Outcome([d EXCEPT !.ccrs = c], None, c)
             ELSE Outcome([d EXCEPT !.ccrs = NoCRS], None, NoCRS)

\* DEM.ccrs.  pn: pyproj.proj_version_str >= "7.2.0"; gdal_ok: the gdalinfo
\* subprocess of get_crs succeeds (it then yields the file's CRS).
ccrs(d, pn, gdal_ok) ==
    IF ~pn /\ ~gdal_ok THEN Outcome(d, "CalledProcessError", NoCRS)
    ELSE LET crs == d.crs
         IN  IF d.vref = "WGS84"
             THEN Outcome([d EXCEPT !.ccrs = crs], None, crs)
             ELSE IF d.vref_grid # None
             THEN IF crs.epsg = None
                  THEN Outcome(d, "TypeError", NoCRS)
                  ELSE LET c == CRS(crs.epsg, d.vref_grid)
                       IN  Outcome([d EXCEPT !.ccrs = c], None, c)
             ELSE Outcome([d EXCEPT !.ccrs = NoCRS], None, NoCRS)

\* set_vref, the branch taken for a grid (lines 183-198)
set_vref_from_grid(d, vref_grid) ==
    IF vref_grid = EGM08_GRID
    THEN Outcome([d EXCEPT !.vref = "EGM08", !.vref_grid = vref_grid], None, NoCRS)
    ELSE IF vref_grid = EGM96_GRID
    THEN Outcome([d EXCEPT !.vref = "EGM96", !.vref_grid = vref_grid], None, NoCRS)
    ELSE IF grid_exists(vref_grid)
    THEN Outcome([d EXCEPT !.vref = unknown_vref(vref_grid), !.vref_grid = vref_grid],
                 None, NoCRS)
    ELSE Outcome(d, "ValueError", NoCRS)

\* The name branch leaving the grid of the previous reference in place for
\* "WGS84".
set_vref_from_name_keep_grid(d, vref_name) ==
    IF vref_name = "WGS84"
    THEN Outcome([d EXCEPT !.vref = "WGS84"], None, NoCRS)
    ELSE IF vref_name = "EGM08"
    THEN Outcome([d EXCEPT !.vref_grid = EGM08_GRID, !.vref = "EGM08"], None, NoCRS)
    ELSE IF vref_name = "EGM96"
    THEN Outcome([d EXCEPT !.vref_grid = EGM96_GRID, !.vref = "EGM96"], None, NoCRS)
    ELSE Outcome(d, "ValueError", NoCRS)

\* set_vref, the branch taken for a name (lines 202-215)
set_vref_from_name(d, vref_name) ==
    IF vref_name = "WGS84"
    THEN Outcome([d EXCEPT !.vref_grid = None, !.vref = "WGS84"], None, NoCRS)
    ELSE IF vref_name = "EGM08"
    THEN Outcome([d EXCEPT !.vref_grid = EGM08_GRID, !.vref = "EGM08"], None, NoCRS)
    ELSE IF vref_name = "EGM96"
    THEN Outcome([d EXCEPT !.vref_grid = EGM96_GRID, !.vref = "EGM96"], None, NoCRS)
    ELSE Outcome(d, "ValueError", NoCRS)

\* set_vref taking the grid branch for a non-empty string only.
set_vref_nonempty(d, vref_name, vref_grid) ==
    IF IsStr(vref_grid) /\ vref_grid # "" THEN set_vref_from_grid(d, vref_grid)
    ELSE IF IsStr(vref_name) THEN set_vref_from_name(d, vref_name)
    ELSE Outcome(d, "ValueError", NoCRS)

\* DEM.set_vref
set_vref(d, vref_name, vref_grid) ==
    IF IsStr(vref_grid) THEN set_vref_from_grid(d, vref_grid)
    ELSE IF IsStr(vref_name) THEN set_vref_from_name(d, vref_name)
    ELSE Outcome(d, "ValueError", NoCRS)

\* Geoid undulation at the raster's pixel for each grid the transformer can
\* resolve; a grid it cannot resolve contributes nothing.
undulation(grid) ==
    IF grid = EGM96_GRID THEN 2
    ELSE IF grid = EGM08_GRID THEN 3
    ELSE IF grid = OTHER_GRID THEN 5
    ELSE 0

\* Transformer.from_crs(ccrs_init, ccrs_dest) raises: always when either CRS
\* is None, otherwise when the library says so (fails).
from_crs_raises(ccrs_init, ccrs_dest, fails) ==
    ccrs_init.kind = "None" \/ ccrs_dest.kind = "None" \/ fails

\* transformer.transform(xx, yy, zz[0, :])[2]
transform(ccrs_init, ccrs_dest, zz) ==
    zz + undulation(ccrs_init.geoidgrids) - undulation(ccrs_dest.geoidgrids)

\* Outcome of to_vref: the object (its array included), the exception and
\* the steps taken.
Conv(d, exc, trace) == [dem |-> d, exc |-> exc, trace |-> trace]

\* DEM.to_vref after its check of the source reference, with the source
\* CRS read once set_vref has run (a variant the claims must tell apart).
to_vref_body_late_init(d, vref_name, vref_grid, pn, fault) ==
    LET r2 == set_vref(d, vref_name, vref_grid)
        t1 == <<Event("set_vref", NoCRS, NoCRS)>>
    IN  IF r2.exc # None THEN Conv(r2.dem, r2.exc, <<>>)
    ELSE
    LET r1 == ccrs(r2.dem, pn, fault # "gdal1")
        t2 == Append(t1, Event("ccrs", r1.ret, NoCRS))
    IN  IF r1.exc # None THEN Conv(r1.dem, r1.exc, t1)
    ELSE
    LET ccrs_init == r1.ret
        r3 == ccrs(r1.dem, pn, fault # "gdal2")
        t3 == Append(t2, Event("ccrs", r3.ret, NoCRS))
    IN  IF r3.exc # None THEN Conv(r3.dem, r3.exc, t2)
    ELSE
    LET ccrs_dest == r3.ret
        t4 == Append(t3, Event("from_crs", ccrs_init, ccrs_dest))
    IN  IF from_crs_raises(ccrs_init, ccrs_dest, fault = "build")
        THEN Conv(r3.dem, "CRSError", t3)
        ELSE IF fault = "apply" THEN Conv(r3.dem, "ProjError", t4)
        ELSE Conv([r3.dem EXCEPT !.z = transform(ccrs_init, ccrs_dest, @)], None,
                  Append(t4, Event("write", NoCRS, NoCRS)))

\* DEM.to_vref after its check of the source reference.  pn as in ccrs;
\* fault: what the environment makes fail.  The trace holds the steps that
\* completed.
to_vref_body(d, vref_name, vref_grid, pn, fault) ==
    LET r1 == ccrs(d, pn, fault # "gdal1")
        t1 == <<Event("ccrs", r1.ret, NoCRS)>>
    IN  IF r1.exc # None THEN Conv(r1.dem, r1.exc, <<>>)
    ELSE
    LET ccrs_init == r1.ret
        r2 == set_vref(r1.dem, vref_name, vref_grid)
        t2 == Append(t1, Event("set_vref", NoCRS, NoCRS))
    IN  IF r2.exc # None THEN Conv(r2.dem, r2.exc, t1)
    ELSE
    LET r3 == ccrs(r2.dem, pn, fault # "gdal2")
        t3 == Append(t2, Event("ccrs", r3.ret, NoCRS))
    IN  IF r3.exc # None THEN Conv(r3.dem, r3.exc, t2)
    ELSE
    LET ccrs_dest == r3.ret
        t4 == Append(t3, Event("from_crs", ccrs_init, ccrs_dest))
    IN  IF from_crs_raises(ccrs_init, ccrs_dest, fault = "build")
        THEN Conv(r3.dem, "CRSError", t3)
        ELSE IF fault = "apply" THEN Conv(r3.dem, "ProjError", t4)
        ELSE Conv([r3.dem EXCEPT !.z = transform(ccrs_init, ccrs_dest, @)], None,
                  Append(t4, Event("write", NoCRS, NoCRS)))

\* to_vref restoring the object when the transformer fails.
to_vref_atomic(d, vref_name, vref_grid, pn, fault) ==
    IF d.vref = None /\ d.vref_grid = None
    THEN Conv(d, "ValueError", <<>>)
    ELSE LET r == to_vref_body(d, vref_name, vref_grid, pn, fault)
         IN  IF r.exc \in {"CRSError", "ProjError"} THEN Conv(d, r.exc, r.trace) ELSE r

\* to_vref checking the source reference only after reading ccrs.
to_vref_check_late(d, vref_name, vref_grid, pn, fault) ==
    LET r1 == ccrs(d, pn, fault # "gdal1")
    IN  IF r1.exc # None THEN Conv(r1.dem, r1.exc, <<>>)
        ELSE IF d.vref = None /\ d.vref_grid = None
        THEN Conv(r1.dem, "ValueError", <<Event("ccrs", r1.ret, NoCRS)>>)
        ELSE to_vref_body(d, vref_name, vref_grid, pn, fault)

\* DEM.to_vref
to_vref(d, vref_name, vref_grid, pn, fault) ==
    IF d.vref = None /\ d.vref_grid = None
    THEN Conv(d, "ValueError", <<>>)
    ELSE to_vref_body(d, vref_name, vref_grid, pn, fault)

\* ----------------------------------------------------------------- actions

Abs(n) == IF n < 0 THEN -n ELSE n

\* The installed pyproj (pn: its version is at least 7.2.0) and the outcome
\* of the external calls belong to the environment and are drawn per call.
\* The faults pyproj allows: get_crs runs only below 7.2.0.
FaultsOf(pn) == IF pn THEN Faults \ {"gdal1", "gdal2"} ELSE Faults

Init ==
    /\ dem = NoDem
    /\ last = NoCall

\* parse_vref_from_product(product), called directly.
ParseVrefFromProduct ==
    \E product \in ProductArgs :
        /\ last' = Call("parse_vref_from_product", None, None, product, None,
                        NoCRS, parse_vref_from_product(product), <<>>)
        /\ UNCHANGED dem

\* d = DEM(filename, vref_name, vref_grid) with a loadable single-band raster
Construct ==
    \E crs \in HorizontalCRSs, nbands \in 0 .. 1,
       vref_name \in CtorNames, vref_grid \in CtorGrids, product \in LoadedProducts :
        LET r == DEM_init(TRUE, crs, nbands, 0, vref_name, vref_grid, product)
        IN  /\ dem' = r.dem
            /\ last' = Call("init", vref_name, vref_grid, product, r.exc,
                            NoCRS, None, <<>>)

\* d = DEM(filename, vref_name, vref_grid) raising: the source is rejected
\* or has two bands; d stays bound to what it was.
ConstructRaises ==
    \E loaded \in BOOLEAN, vref_name \in CtorNames :
        LET r == DEM_init(loaded, CRS("4326", None), 2, 0, vref_name, None, None)
        IN  /\ r.exc # None
            /\ last' = Call("init", vref_name, None, None, r.exc, NoCRS, None, <<>>)
            /\ UNCHANGED dem

\* d = DEM(d)
Rewrap ==
    /\ dem.live
    /\ dem' = DEM_init_from_dem(dem)
    /\ last' = Call("init_from_dem", None, None, None, None, NoCRS, None, <<>>)

\* d = d.copy(new_array): the array is duplicated, or replaced by new_array
\* (an array of zeros here).
Copy ==
    \E given \in BOOLEAN :
        /\ dem.live
        /\ dem' = copy(dem, IF given THEN 0 ELSE dem.z)
        /\ last' = Call("copy", None, None, None, None, NoCRS, None, <<>>)

\* d.ccrs
ReadCcrs ==
    \E pn \in BOOLEAN :
      \E gdal_ok \in (IF pn THEN {TRUE} ELSE BOOLEAN) :
        /\ dem.live
        /\ LET r == ccrs(dem, pn, gdal_ok)
           IN  /\ dem' = r.dem
               /\ last' = Call("ccrs", None, None, None, r.exc, r.ret, None, <<>>)

\* d.set_vref(vref_name, vref_grid)
SetVref ==
    \E vref_name \in NameArgs, vref_grid \in GridArgs :
        /\ dem.live
        /\ LET r == set_vref(dem, vref_name, vref_grid)
           IN  /\ dem' = r.dem
               /\ last' = Call("set_vref", vref_name, vref_grid, None, r.exc,
                               NoCRS, None, <<>>)

\* d.to_vref(vref_name, vref_grid)
ToVref ==
    \E vref_name \in ConvNames, vref_grid \in ConvGrids, pn \in BOOLEAN :
      \E fault \in FaultsOf(pn) :
        /\ dem.live
        /\ Abs(dem.z) < MaxShift
        /\ LET r == to_vref(dem, vref_name, vref_grid, pn, fault)
           IN  /\ dem' = r.dem
               /\ last' = Call("to_vref", vref_name, vref_grid, None, r.exc,
                               NoCRS, None, r.trace)

Next ==
    \/ ParseVrefFromProduct
    \/ Construct
    \/ ConstructRaises
    \/ Rewrap
    \/ Copy
    \/ ReadCcrs
    \/ SetVref
    \/ ToVref

Spec == Init /\ [][Next]_vars

\* ------------------------------------------------------------------ claims

\* The compound CRS the state of d determines.
ExpectedCcrs(d) ==
    IF d.vref = "WGS84" THEN d.crs
    ELSE IF d.vref_grid # None THEN CRS(d.crs.epsg, d.vref_grid)
    ELSE NoCRS

\* What a call of set_vref with a name and no usable grid must do.
ByNameAlone(d, c) ==
    IF c.vref_name = "WGS84" THEN c.exc = None /\ d.vref = "WGS84" /\ d.vref_grid = None
    ELSE IF c.vref_name = "EGM08"
    THEN c.exc = None /\ d.vref = "EGM08" /\ d.vref_grid = EGM08_GRID
    ELSE IF c.vref_name = "EGM96"
    THEN c.exc = None /\ d.vref = "EGM96" /\ d.vref_grid = EGM96_GRID
    ELSE c.exc = "ValueError"

\* What a call of set_vref that takes the grid branch must do.
ByGrid(d, c) ==
    IF c.vref_grid = EGM08_GRID
    THEN c.exc = None /\ d.vref = "EGM08" /\ d.vref_grid = EGM08_GRID
    ELSE IF c.vref_grid = EGM96_GRID
    THEN c.exc = None /\ d.vref = "EGM96" /\ d.vref_grid = EGM96_GRID
    ELSE IF c.vref_grid = "" \/ c.vref_grid \in GridDir
    THEN /\ c.exc = None
         /\ d.vref = "Unknown vertical reference name from: " \o c.vref_grid
         /\ d.vref_grid = c.vref_grid
    ELSE c.exc = "ValueError"

\* C1: a to_vref call whose transformer cannot be built or applied fails
\* with vref and vref_grid already those set_vref gives for the arguments,
\* and with the elevation array as it was before the call: no rollback.
C1_NoRollback ==
    [][(last'.op = "to_vref" /\ last'.exc \in {"CRSError", "ProjError"}) =>
          LET dest == set_vref(dem, last'.vref_name, last'.vref_grid)
          IN  /\ dest.exc = None
              /\ dem'.vref = dest.dem.vref
              /\ dem'.vref_grid = dest.dem.vref_grid
              /\ dem'.z = dem.z
              /\ Len(last'.trace) >= 3
              /\ last'.trace[2].ev = "set_vref"]_vars

\* C1 witness: a conversion from EGM96 to WGS84 failed in the transform; the
\* object says WGS84 and no grid while the source read was the EGM96 compound.
C1_Witness ==
    /\ last.op = "to_vref" /\ last.exc = "ProjError"
    /\ last.vref_name = "WGS84" /\ last.vref_grid = None
    /\ dem.vref = "WGS84" /\ dem.vref_grid = None
    /\ last.trace[1].a.geoidgrids = EGM96_GRID
    /\ dem.z = 0

\* C2: to_vref fails its source check (ValueError before any step) exactly
\* when vref and vref_grid are both absent, and then nothing of the object
\* changes and ccrs is not read.
C2_SourceCheck ==
    [][last'.op = "to_vref" =>
          /\ (dem.vref = None /\ dem.vref_grid = None)
                <=> (last'.exc = "ValueError" /\ last'.trace = <<>>)
          /\ (dem.vref = None /\ dem.vref_grid = None) => dem' = dem]_vars

\* C2 witness: the check failed on an object without any reference.
C2_Witness ==
    /\ last.op = "to_vref" /\ last.exc = "ValueError" /\ last.trace = <<>>
    /\ dem.live /\ dem.vref = None /\ dem.vref_grid = None /\ dem.ccrs = NoCRS

\* C3: the names EGM08 and EGM96 always come with their grid.
C3_NameImpliesGrid ==
    dem.live =>
        /\ dem.vref = "EGM08" => dem.vref_grid = EGM08_GRID
        /\ dem.vref = "EGM96" => dem.vref_grid = EGM96_GRID

C5_ByName ==
    [][(last'.op = "set_vref" /\ last'.vref_grid = None) =>
          /\ ByNameAlone(dem', last')
          /\ last'.vref_name \notin {"WGS84", "EGM08", "EGM96"} =>
                dem'.vref = dem.vref /\ dem'.vref_grid = dem.vref_grid]_vars

\* C5 witness: set_vref("WGS84") on an object that had a grid (the cached
\* compound CRS still names it).
C5_Witness ==
    /\ last.op = "set_vref" /\ last.vref_name = "WGS84" /\ last.vref_grid = None
    /\ dem.vref = "WGS84" /\ dem.vref_grid = None
    /\ dem.ccrs.geoidgrids = EGM96_GRID

\* C6: after construction from a raster, vref is the user's name when one
\* was given, else the reference of the product when it has one, else
\* absent; vref_grid is the user's grid and the cache is empty.
C6_Construction ==
    (last.op = "init" /\ last.exc = None) =>
        /\ dem.live
        /\ dem.vref = IF last.vref_name # None THEN last.vref_name
                      ELSE IF last.product = "TDM1" THEN "WGS84"
                      ELSE IF last.product = "SRTMGL1" THEN "EGM96"
                      ELSE IF last.product = "COPDEM" THEN "EGM08"
                      ELSE None
        /\ dem.vref_grid = last.vref_grid
        /\ dem.ccrs = NoCRS

\* C6 witness: the user's WGS84 kept although the product says EGM96.
C6_Witness ==
    /\ last.op = "init" /\ last.exc = None
    /\ last.vref_name = "WGS84" /\ last.product = "SRTMGL1"
    /\ dem.vref = "WGS84"

\* C7: parse_vref_from_product returns the reference of the table for each
\* product, absent for anything else, never fails and changes no state.
C7_Table ==
    [][last'.op = "parse_vref_from_product" =>
          /\ last'.exc = None
          /\ dem' = dem
          /\ last'.product \in {"ArcticDEM/REMA", "TDM1", "NASADEM-HGTS"}
                => last'.sret = "WGS84"
          /\ last'.product \in {"AW3D30", "SRTMv4.1", "SRTMGL1", "ASTGTM2", "NASADEM-HGT"}
                => last'.sret = "EGM96"
          /\ last'.product = "COPDEM" => last'.sret = "EGM08"
          /\ last'.product \notin Products => last'.sret = None]_vars

\* C7 witness: NASADEM-HGT resolved to EGM96.
C7_Witness ==
    /\ last.op = "parse_vref_from_product"
    /\ last.product = "NASADEM-HGT" /\ last.sret = "EGM96"

\* C8: a to_vref call that returns read the source CRS from the state before
\* the call, then applied set_vref, then read the destination CRS from the
\* new state, then built the transformer from that pair and wrote the
\* transformed elevation; vref and vref_grid are those set_vref alone gives.
C8_Order ==
    [][(last'.op = "to_vref" /\ last'.exc = None) =>
          LET src == ExpectedCcrs(dem)
              dst == ExpectedCcrs(dem')
              dest == set_vref(dem, last'.vref_name, last'.vref_grid)
          IN  /\ last'.trace = <<Event("ccrs", src, NoCRS),
                                 Event("set_vref", NoCRS, NoCRS),
                                 Event("ccrs", dst, NoCRS),
                                 Event("from_crs", src, dst),
                                 Event("write", NoCRS, NoCRS)>>
              /\ dem'.vref = dest.dem.vref /\ dem'.vref_grid = dest.dem.vref_grid
              /\ dem'.z = dem.z + undulation(src.geoidgrids) - undulation(dst.geoidgrids)]_vars

\* C8 witness: a conversion between two different references returned and
\* moved the elevation.
C8_Witness ==
    /\ last.op = "to_vref" /\ last.exc = None
    /\ Len(last.trace) = 5
    /\ last.trace[4].a # last.trace[4].b
    /\ dem.z # 0

\* C9: a read of ccrs returns what vref, vref_grid and the horizontal CRS
\* determine at that moment, whatever the cache held, and leaves that value
\* in the cache; so does the destination read inside to_vref.
C9_FreshRead ==
    /\ (last.op = "ccrs" /\ last.exc = None) =>
          last.ret = ExpectedCcrs(dem) /\ dem.ccrs = last.ret
    /\ (last.op = "to_vref" /\ Len(last.trace) >= 3) =>
          last.trace[3].a = ExpectedCcrs(dem) /\ dem.ccrs = last.trace[3].a

\* C9 witness: WGS84 with a grid set reads as the horizontal CRS.
C9_Witness ==
    /\ last.op = "ccrs" /\ last.exc = None
    /\ dem.vref = "WGS84" /\ dem.vref_grid = EGM96_GRID
    /\ last.ret = dem.crs /\ dem.ccrs = dem.crs

\* C10: the source CRS captured by a to_vref call that passed its check is
\* defined.
C10_SourceDefined ==
    (last.op = "to_vref" /\ Len(last.trace) >= 1) => last.trace[1].a.kind # "None"

====
